---- MODULE Spec2Model ----
(***************************************************************************)
(* Stock-Analyser: the fetch -> clean -> SMA -> tail(180) -> render        *)
(* pipeline of src/stock_analyser.py (terminal script) and src/app.py      *)
(* (Streamlit dashboard).                                                  *)
(*                                                                         *)
(* Numbers are exact rationals [nan, n, d] (value n/d, or NaN); floating   *)
(* point rounding of pandas is outside the model.  A date-string key is    *)
(* [day, fmt]: the calendar day it denotes and the way it is written       *)
(* ("2024-01-02" or "2024-1-2"), so two distinct keys can denote one day.  *)
(***************************************************************************)
EXTENDS Integers, Sequences, FiniteSets, TLC

VARIABLES variant, pc, response, sma_period, df_raw, df_processed, df_recent,
          messages, ran, metrics, report

vars == <<variant, pc, response, sma_period, df_raw, df_processed, df_recent,
          messages, ran, metrics, report>>

-----------------------------------------------------------------------------
(* Bounds of the model *)
MaxRows == 2          \* rows of an enumerated raw series
MaxDay == 2           \* calendar days the enumerated keys denote
MaxShortDay == 1      \* days that also come spelled without zero padding
MaxPeriod == 3        \* SMA periods 1..MaxPeriod tried on the function
LongExtra == 1        \* generated series of Window + 1 .. Window + LongExtra rows
PipeRows == 1         \* rows of an enumerated raw series in a pipeline run
MaxSliderSteps == 3   \* dashboard periods SliderMin .. SliderMin + 3 steps

(* Program constants *)
SMA_PERIOD == 20
Window == 180
SliderMin == 5
SliderMax == 100
SliderStep == 5

-----------------------------------------------------------------------------
(* Numbers *)
Num(n, d) == [nan |-> FALSE, n |-> n, d |-> d]
NaN == [nan |-> TRUE, n |-> 0, d |-> 1]

NumEq(a, b) == /\ a.nan = b.nan
               /\ (~a.nan => a.n * b.d = b.n * a.d)

NumAdd(a, b) == IF a.nan \/ b.nan THEN NaN
                ELSE Num(a.n * b.d + b.n * a.d, a.d * b.d)

NumDiv(a, k) == IF a.nan THEN NaN ELSE Num(a.n, a.d * k)

(* Variant of to_numeric that takes only unsigned numerals for numbers. *)
to_numeric_unsigned(s) ==
    CASE s = "10" -> Num(10, 1)
      [] s = "20" -> Num(20, 1)
      [] s = "30" -> Num(30, 1)
      [] s = "40" -> Num(40, 1)
      [] s = "50" -> Num(50, 1)
      [] s = "60" -> Num(60, 1)
      [] s = "0" -> Num(0, 1)
      [] s = "1.5" -> Num(3, 2)
      [] OTHER -> NaN

(* pd.to_numeric(..., errors='coerce') on one cell: the number a numeric     *)
(* string denotes, NaN for anything else.                                   *)
NumericStrings == {"10", "20", "30", "40", "50", "60", "0", "-5", "-1", "1.5"}

to_numeric(s) ==
    CASE s = "10" -> Num(10, 1)
      [] s = "20" -> Num(20, 1)
      [] s = "30" -> Num(30, 1)
      [] s = "40" -> Num(40, 1)
      [] s = "50" -> Num(50, 1)
      [] s = "60" -> Num(60, 1)
      [] s = "0" -> Num(0, 1)
      [] s = "-5" -> Num(0 - 5, 1)
      [] s = "-1" -> Num(0 - 1, 1)
      [] s = "1.5" -> Num(3, 2)
      [] OTHER -> NaN

-----------------------------------------------------------------------------
(* Columns *)
ProviderLabels == {"1. open", "2. high", "3. low", "4. close", "5. volume"}
cols_to_numeric == {"Open", "High", "Low", "Close", "Volume"}

column_mapping(label) ==
    CASE label = "1. open" -> "Open"
      [] label = "2. high" -> "High"
      [] label = "3. low" -> "Low"
      [] label = "4. close" -> "Close"
      [] label = "5. volume" -> "Volume"
      [] OTHER -> label

SmaCol(p) == ToString(p) \o "_day_SMA"

(* A raw provider row: its date-string key and its five string fields. *)
RawRow(key, o, h, l, c, v) ==
    [index |-> key,
     cells |-> ("1. open" :> o) @@ ("2. high" :> h) @@ ("3. low" :> l)
               @@ ("4. close" :> c) @@ ("5. volume" :> v)]

Key(day, fmt) == [day |-> day, fmt |-> fmt]

(* pd.to_datetime on one key: the calendar day, whatever the spelling. *)
to_datetime(key) == key.day

-----------------------------------------------------------------------------
(* Data frames: a sequence of rows [index, cells]; None is a frame-or-None  *)
(* value that is None.                                                      *)
AsSeq(f) == SubSeq(f, 1, Len(f))

None == [isNone |-> TRUE, rows |-> <<>>]
Frame(rows) == [isNone |-> FALSE, rows |-> rows]
empty(df) == Len(df.rows) = 0

-----------------------------------------------------------------------------
(* The provider response: how the request ended and, when a JSON body came  *)
(* back, the keys it carries and the value under "Time Series (Daily)".     *)
Body(keys, series) == [keys |-> keys, series |-> series]
Response(kind, body) == [kind |-> kind, body |-> body]

(* data.get("Time Series (Daily)"): the mapping, or None when the key is    *)
(* absent; `not time_series` is true of None and of the empty mapping.      *)
time_series_missing(data) ==
    \/ "Time Series (Daily)" \notin data.keys
    \/ Len(data.series) = 0

(* pd.DataFrame.from_dict(time_series, orient='index'): one row per key, in *)
(* the mapping's order.                                                     *)
from_dict(series) == Frame(series)

FetchResult(df, msgs) == [df |-> df, msgs |-> msgs]

(* fetch_stock_data of the script: a "Note" is printed and the code goes on. *)
fetch_stock_data_script(resp) ==
    IF resp.kind # "ok"
    THEN FetchResult(None, <<"NetworkError">>)
    ELSE LET data == resp.body IN
         IF "Error Message" \in data.keys
         THEN FetchResult(None, <<"ProviderError">>)
         ELSE LET noted == IF "Note" \in data.keys THEN <<"RateLimited">> ELSE <<>> IN
              IF time_series_missing(data)
              THEN FetchResult(None, noted \o <<"MissingTimeSeries">>)
              ELSE FetchResult(from_dict(data.series), noted \o <<"FetchedOK">>)

(* fetch_stock_data of the dashboard: a "Note" returns None. *)
fetch_stock_data_app(resp) ==
    IF resp.kind # "ok"
    THEN FetchResult(None, <<"NetworkError">>)
    ELSE LET data == resp.body IN
         IF "Error Message" \in data.keys
         THEN FetchResult(None, <<"ProviderError">>)
         ELSE IF "Note" \in data.keys
         THEN FetchResult(None, <<"RateLimited">>)
         ELSE IF time_series_missing(data)
         THEN FetchResult(None, <<"MissingTimeSeries">>)
         ELSE FetchResult(from_dict(data.series), <<>>)

fetch_stock_data(v, resp) ==
    IF v = "script" THEN fetch_stock_data_script(resp)
    ELSE fetch_stock_data_app(resp)

-----------------------------------------------------------------------------
(* clean_and_feature_engineer *)

(* df.rename(columns=column_mapping) *)
rename(rows) ==
    AsSeq([i \in 1..Len(rows) |->
        [index |-> rows[i].index,
         cells |-> [c \in {column_mapping(l) : l \in DOMAIN rows[i].cells} |->
                      rows[i].cells[CHOOSE l \in DOMAIN rows[i].cells :
                                        column_mapping(l) = c]]]])

(* df.index = pd.to_datetime(df.index) *)
index_to_datetime(rows) ==
    AsSeq([i \in 1..Len(rows) |->
              [rows[i] EXCEPT !.index = to_datetime(rows[i].index)]])

IsSortedByIndex(rows) ==
    \A i \in 1..Len(rows) - 1 : rows[i].index <= rows[i + 1].index

UniqueIndex(rows) ==
    \A i, j \in 1..Len(rows) : rows[i].index = rows[j].index => i = j

(* The stable ascending order: row j goes to the place counting the rows    *)
(* with an earlier date and the earlier rows with the same date.            *)
StableSort(rows) ==
    LET n == Len(rows)
        rank == AsSeq([j \in 1..n |->
                   Cardinality({k \in 1..n :
                       \/ rows[k].index < rows[j].index
                       \/ (rows[k].index = rows[j].index /\ k < j)}) + 1])
    IN AsSeq([r \in 1..n |-> rows[CHOOSE j \in 1..n : rank[j] = r]])

Permutations1(n) ==
    {f \in [1..n -> 1..n] : \A i, j \in 1..n : f[i] = f[j] => i = j}

(* Variant of sort_index that leaves the rows as they came. *)
sort_index_unsorted(rows) == {rows}

(* df.sort_index(): ascending by date.  The default kind is quicksort,      *)
(* which fixes no order among rows with the same date: every ascending      *)
(* arrangement is a possible result.  A frame already ascending is kept.    *)
sort_index(rows) ==
    IF IsSortedByIndex(rows) \/ UniqueIndex(rows)
    THEN {StableSort(rows)}
    ELSE {AsSeq([i \in 1..Len(rows) |-> rows[f[i]]]) : f \in
             {g \in Permutations1(Len(rows)) :
                 IsSortedByIndex([i \in 1..Len(rows) |-> rows[g[i]]])}}

(* df[cols] = df[cols].apply(pd.to_numeric, errors='coerce') *)
apply_to_numeric(rows) ==
    AsSeq([i \in 1..Len(rows) |->
        [rows[i] EXCEPT !.cells =
            [c \in DOMAIN rows[i].cells |->
                IF c \in cols_to_numeric THEN to_numeric(rows[i].cells[c])
                ELSE rows[i].cells[c]]]])

HasNaN(row) == \E c \in DOMAIN row.cells : row.cells[c].nan

(* Variant of dropna that looks at the close alone. *)
dropna_close_only(rows) == SelectSeq(rows, LAMBDA r : ~r.cells["Close"].nan)

(* df.dropna(): the rows without a NaN, in order. *)
dropna(rows) == SelectSeq(rows, LAMBDA r : ~HasNaN(r))

(* Sum of column col over rows a..b. *)
RECURSIVE ColSum(_, _, _, _)
ColSum(rows, col, a, b) ==
    IF a > b THEN Num(0, 1)
    ELSE NumAdd(ColSum(rows, col, a, b - 1), rows[b].cells[col])

(* Variant of rolling_mean with min_periods=1: a mean over the rows so far. *)
rolling_mean_min1(rows, col, p) ==
    [i \in 1..Len(rows) |->
        IF i < p THEN NumDiv(ColSum(rows, col, 1, i), i)
        ELSE NumDiv(ColSum(rows, col, i - p + 1, i), p)]

(* df[col].rolling(window=p).mean(): min_periods is the window, so the      *)
(* first p-1 places are NaN.                                                *)
rolling_mean(rows, col, p) ==
    [i \in 1..Len(rows) |->
        IF i < p THEN NaN
        ELSE NumDiv(ColSum(rows, col, i - p + 1, i), p)]

with_sma(rows, p) ==
    LET sma == rolling_mean(rows, "Close", p) IN
    AsSeq([i \in 1..Len(rows) |->
        [rows[i] EXCEPT !.cells = rows[i].cells @@ (SmaCol(p) :> sma[i])]])

(* Lines 54-60: rename, parse dates, sort, coerce, drop. *)
normalize(rows) ==
    {dropna(apply_to_numeric(s)) : s \in sort_index(index_to_datetime(rename(rows)))}

clean_and_feature_engineer(df, p) ==
    {Frame(with_sma(rows, p)) : rows \in normalize(df.rows)}

(* Variant of tail that keeps the first n rows. *)
tail_head(df, n) ==
    IF Len(df.rows) <= n THEN df
    ELSE Frame(SubSeq(df.rows, 1, n))

(* df.tail(n) *)
tail(df, n) ==
    IF Len(df.rows) <= n THEN df
    ELSE Frame(SubSeq(df.rows, Len(df.rows) - n + 1, Len(df.rows)))

-----------------------------------------------------------------------------
(* Inputs *)
Keys == {Key(d, "iso") : d \in 1..MaxDay} \cup {Key(d, "short") : d \in 1..MaxShortDay}

(* Field texts of one provider row: open, high, low, close, volume. *)
RowTexts ==
    { <<"10", "20", "10", "10", "30">>,      \* well-formed
      <<"20", "30", "10", "20", "40">>,      \* well-formed
      <<"10", "20", "10", "N/A", "30">>,     \* close not a number
      <<"10", "20", "10", "10", "N/A">>,     \* volume not a number
      <<"10", "20", "10", "-5", "1.5">>,     \* negative close, fractional volume
      <<"10", "20", "10", "0", "-1">> }      \* zero close, negative volume

RawRows == {RawRow(k, t[1], t[2], t[3], t[4], t[5]) : k \in Keys, t \in RowTexts}

(* A JSON object has each key once. *)
DistinctKeys(s) == \A i, j \in 1..Len(s) : s[i].index = s[j].index => i = j

SmallSeries(maxRows) ==
    UNION {{s \in [1..n -> RawRows] : DistinctKeys(s)} : n \in 1..maxRows}

ClosePattern == <<"10", "20", "30", "40", "50", "60">>
CloseOfDay(day) == ClosePattern[((day - 1) % Len(ClosePattern)) + 1]

(* n rows for days 1..n, listed newest first (as the provider does) or      *)
(* oldest first, the row at place badAt carrying a non-numeric close.       *)
LongSeries(n, desc, badAt) ==
    AsSeq([i \in 1..n |->
        LET day == IF desc THEN n + 1 - i ELSE i
            c == IF i = badAt THEN "N/A" ELSE CloseOfDay(day)
        IN RawRow(Key(day, "iso"), c, "60", "10", c, "30")])

LongLens == {5, SMA_PERIOD - 1, SMA_PERIOD, Window - 1, Window, Window + SMA_PERIOD}
            \cup (Window + 1 .. Window + LongExtra)

LongSeriesSet ==
    {LongSeries(n, desc, badAt) : n \in LongLens, desc \in BOOLEAN, badAt \in {0, 1, 3}}

SliderValues ==
    {SliderMin + k * SliderStep : k \in 0..((SliderMax - SliderMin) \div SliderStep)}

AppPeriods == {p \in SliderValues : p <= SliderMin + MaxSliderSteps * SliderStep}

Bodies ==
    {Body(ks, <<>>) : ks \in SUBSET {"Error Message", "Note", "Time Series (Daily)"}}
    \cup {Body(ks \cup {"Time Series (Daily)"}, s) :
            ks \in SUBSET {"Error Message", "Note"},
            s \in SmallSeries(PipeRows) \cup LongSeriesSet}

Responses ==
    {Response(k, Body({}, <<>>)) : k \in {"transport_error", "http_error"}}
    \cup {Response("ok", b) : b \in Bodies}

NoMetrics == [set |-> FALSE, date |-> Key(0, "iso"), close |-> NaN, sma |-> NaN]

-----------------------------------------------------------------------------
(* The pipeline run: the __main__ block of the script, the fetch_button     *)
(* branch of the dashboard.                                                 *)
Init ==
    /\ variant \in {"script", "app"}
    /\ response \in Responses
    /\ sma_period \in IF variant = "script" THEN {SMA_PERIOD} ELSE AppPeriods
    /\ pc = "start"
    /\ df_raw = None
    /\ df_processed = None
    /\ df_recent = None
    /\ messages = <<>>
    /\ ran = <<>>
    /\ metrics = NoMetrics
    /\ report = "none"

(* df_raw = fetch_stock_data(...) *)
Fetch ==
    /\ pc = "start"
    /\ LET r == fetch_stock_data(variant, response) IN
         /\ df_raw' = r.df
         /\ messages' = r.msgs
    /\ ran' = Append(ran, "fetch")
    /\ pc' = "fetched"
    /\ UNCHANGED <<variant, response, sma_period, df_processed, df_recent, metrics, report>>

(* Variant of proceed without the check. *)
proceed_unchecked(df) == TRUE

(* if df_raw is not None and not df_raw.empty *)
proceed(df) == ~df.isNone /\ ~empty(df)

(* The else branch: the failure report. *)
ReportFailure ==
    /\ pc = "fetched"
    /\ ~proceed(df_raw)
    /\ report' = "failed"
    /\ pc' = "done"
    /\ UNCHANGED <<variant, response, sma_period, df_raw, df_processed, df_recent,
                   messages, ran, metrics>>

(* clean_and_feature_engineer, up to dropna.  On None the first method call *)
(* raises.                                                                  *)
Normalize ==
    /\ pc = "fetched"
    /\ proceed(df_raw)
    /\ ran' = Append(ran, "normalize")
    /\ IF df_raw.isNone
       THEN /\ pc' = "fault"
            /\ UNCHANGED df_processed
       ELSE /\ \E rows \in normalize(df_raw.rows) : df_processed' = Frame(rows)
            /\ pc' = "normalized"
    /\ UNCHANGED <<variant, response, sma_period, df_raw, df_recent, messages,
                   metrics, report>>

(* clean_and_feature_engineer, the rolling mean. *)
ComputeSMA ==
    /\ pc = "normalized"
    /\ df_processed' = Frame(with_sma(df_processed.rows, sma_period))
    /\ ran' = Append(ran, "sma")
    /\ pc' = "featured"
    /\ UNCHANGED <<variant, response, sma_period, df_raw, df_recent, messages,
                   metrics, report>>

(* Variant of Windowing that computes the SMA on the slice. *)
Windowing_recompute ==
    /\ pc = "featured"
    /\ LET cut == tail(df_processed, Window).rows
           sma == rolling_mean(cut, "Close", sma_period)
       IN df_recent' = Frame(AsSeq([i \in 1..Len(cut) |->
              [cut[i] EXCEPT !.cells[SmaCol(sma_period)] = sma[i]]]))
    /\ ran' = Append(ran, "window")
    /\ pc' = "windowed"
    /\ UNCHANGED <<variant, response, sma_period, df_raw, df_processed, messages,
                   metrics, report>>

(* df_recent = df_processed.tail(180) *)
Windowing ==
    /\ pc = "featured"
    /\ df_recent' = tail(df_processed, Window)
    /\ ran' = Append(ran, "window")
    /\ pc' = "windowed"
    /\ UNCHANGED <<variant, response, sma_period, df_raw, df_processed, messages,
                   metrics, report>>

(* strftime('%Y-%m-%d') of a date: its zero-padded spelling. *)
strftime(day) == Key(day, "iso")

(* index[-1], ['Close'].iloc[-1], [sma column].iloc[-1] *)
latest(df, p) ==
    LET r == df.rows[Len(df.rows)] IN
    [set |-> TRUE, date |-> strftime(r.index), close |-> r.cells["Close"],
     sma |-> r.cells[SmaCol(p)]]

(* plot_stock_data.  On an empty frame the script's volume axis limit is    *)
(* NaN, which matplotlib rejects or accepts depending on its version.       *)
Plot ==
    /\ \/ variant = "script" /\ pc = "windowed"
       \/ variant = "app" /\ pc = "summarised"
    /\ ran' = Append(ran, "plot")
    /\ IF variant = "script"
       THEN /\ pc' \in IF empty(df_recent) THEN {"fault", "plotted"} ELSE {"plotted"}
            /\ UNCHANGED report
       ELSE /\ pc' = "done"
            /\ report' = "success"
    /\ UNCHANGED <<variant, response, sma_period, df_raw, df_processed, df_recent,
                   messages, metrics>>

(* The three summary values; index[-1] of an empty frame raises IndexError. *)
Summary ==
    /\ \/ variant = "script" /\ pc = "plotted"
       \/ variant = "app" /\ pc = "windowed"
    /\ ran' = Append(ran, "summary")
    /\ IF empty(df_recent)
       THEN /\ pc' = "fault"
            /\ UNCHANGED <<metrics, report>>
       ELSE /\ metrics' = latest(df_recent, sma_period)
            /\ IF variant = "script"
               THEN pc' = "done" /\ report' = "success"
               ELSE pc' = "summarised" /\ UNCHANGED report
    /\ UNCHANGED <<variant, response, sma_period, df_raw, df_processed, df_recent,
                   messages>>

Next ==
    \/ Fetch
    \/ ReportFailure
    \/ Normalize
    \/ ComputeSMA
    \/ Windowing
    \/ Plot
    \/ Summary

Spec == Init /\ [][Next]_vars

-----------------------------------------------------------------------------
(* The functions on their own: clean_and_feature_engineer applied to a raw  *)
(* frame with a period, then tail(180) applied to its result.               *)
FnPeriods == (1..MaxPeriod) \cup {SMA_PERIOD}

FnInit ==
    /\ variant \in {"script", "app"}
    /\ response = Response("ok", Body({}, <<>>))
    /\ sma_period \in FnPeriods
    /\ pc = "input"
    /\ df_raw \in {from_dict(s) : s \in SmallSeries(MaxRows) \cup LongSeriesSet}
    /\ df_processed = None
    /\ df_recent = None
    /\ messages = <<>>
    /\ ran = <<>>
    /\ metrics = NoMetrics
    /\ report = "none"

FnClean ==
    /\ pc = "input"
    /\ df_processed' \in clean_and_feature_engineer(df_raw, sma_period)
    /\ pc' = "cleaned"
    /\ UNCHANGED <<variant, response, sma_period, df_raw, df_recent, messages, ran,
                   metrics, report>>

FnTail ==
    /\ pc = "cleaned"
    /\ df_recent' = tail(df_processed, Window)
    /\ pc' = "tailed"
    /\ UNCHANGED <<variant, response, sma_period, df_raw, df_processed, messages, ran,
                   metrics, report>>

FnNext == FnClean \/ FnTail

FnSpec == FnInit /\ [][FnNext]_vars

-----------------------------------------------------------------------------
(* Vocabulary of the properties *)
Fetched == pc \notin {"start", "input"}
Cleaned == pc \in {"cleaned", "tailed"}
BodyKeys == response.body.keys
RawRowsIn == df_raw.rows
Out == df_processed.rows

(* The failure a fetch that returned None ended as: its last message. *)
FailureKind == IF df_raw.isNone /\ Len(messages) > 0 THEN messages[Len(messages)]
               ELSE "none"

AllNumeric(raw) == \A l \in ProviderLabels : raw.cells[l] \in NumericStrings

(* Row r of the output is raw row raw: same day, same five values. *)
SameRow(r, raw) ==
    /\ r.index = raw.index.day
    /\ \A l \in ProviderLabels :
          NumEq(r.cells[column_mapping(l)], to_numeric(raw.cells[l]))

RECURSIVE CloseSum(_, _, _)
CloseSum(rows, a, b) ==
    IF a > b THEN Num(0, 1)
    ELSE NumAdd(rows[a].cells["Close"], CloseSum(rows, a + 1, b))

NumTimes(a, k) == IF a.nan THEN NaN ELSE Num(a.n * k, a.d)

(* The SMA the row at place i (1-based) of rows must carry for period p. *)
SmaOK(rows, i, p, v) ==
    IF i < p THEN v.nan
    ELSE ~v.nan /\ NumEq(NumTimes(v, p), CloseSum(rows, i - p + 1, i))

Closes(rows) == [i \in 1..Len(rows) |-> rows[i].cells["Close"]]
Smas(rows, p) == [i \in 1..Len(rows) |-> rows[i].cells[SmaCol(p)]]

-----------------------------------------------------------------------------
(* C1: a body with the key "Note" (and no "Error Message", which is checked *)
(* first) ends as a RateLimited failure, never as ProviderError or as the   *)
(* missing-time-series failure; a body with "Error Message" ends as a       *)
(* ProviderError failure; in both copies of the fetcher.                    *)
C1_ClassifiedByIndicator ==
    (Fetched /\ response.kind = "ok") =>
        /\ ("Note" \in BodyKeys /\ "Error Message" \notin BodyKeys)
              => (df_raw.isNone /\ FailureKind = "RateLimited")
        /\ "Error Message" \in BodyKeys
              => (df_raw.isNone /\ FailureKind = "ProviderError")

(* C2: the fetch succeeds only on a body without "Error Message", without   *)
(* "Note" and with a non-empty daily series; a body with "Note" and a       *)
(* series is a failure and no later stage runs on it.                       *)
C2_SuccessOnlyOnCleanBody ==
    /\ (Fetched /\ ~df_raw.isNone) =>
          /\ response.kind = "ok"
          /\ "Error Message" \notin BodyKeys
          /\ "Note" \notin BodyKeys
          /\ ~time_series_missing(response.body)
    /\ (response.kind = "ok" /\ "Note" \in BodyKeys) =>
          \A i \in 1..Len(ran) : ran[i] \notin {"normalize", "sma", "window"}

C4_DropOnInvalid ==
    Cleaned =>
        /\ Len(Out) = Len(RawRowsIn)
                      - Cardinality({i \in 1..Len(RawRowsIn) : ~AllNumeric(RawRowsIn[i])})
        /\ \A i \in 1..Len(RawRowsIn) :
              AllNumeric(RawRowsIn[i])
                 <=> \E j \in 1..Len(Out) : SameRow(Out[j], RawRowsIn[i])
        /\ \A j \in 1..Len(Out) :
              /\ \A c \in cols_to_numeric : ~Out[j].cells[c].nan
              /\ \E i \in 1..Len(RawRowsIn) :
                    AllNumeric(RawRowsIn[i]) /\ SameRow(Out[j], RawRowsIn[i])

(* One row dropped, one row kept. *)
C4_Witness ==
    /\ pc = "cleaned"
    /\ Len(RawRowsIn) = 2
    /\ Len(Out) = 1
    /\ RawRowsIn[1].cells["5. volume"] = "N/A"

(* C5: sma[i] is undefined while fewer than p closes are available and      *)
(* otherwise sma[i] * p is the sum of the last p closes; for p beyond the   *)
(* length all are undefined; closes 10..50 with p = 3 give -, -, 20, 30, 40.*)
C5_RollingMean ==
    Cleaned =>
        /\ \A i \in 1..Len(Out) :
              SmaOK(Out, i, sma_period, Out[i].cells[SmaCol(sma_period)])
        /\ sma_period > Len(Out)
              => \A i \in 1..Len(Out) : Out[i].cells[SmaCol(sma_period)].nan
        /\ (sma_period = 3 /\ Closes(Out) = <<Num(10, 1), Num(20, 1), Num(30, 1),
                                              Num(40, 1), Num(50, 1)>>)
              => /\ Smas(Out, 3)[1].nan
                 /\ Smas(Out, 3)[2].nan
                 /\ NumEq(Smas(Out, 3)[3], Num(20, 1))
                 /\ NumEq(Smas(Out, 3)[4], Num(30, 1))
                 /\ NumEq(Smas(Out, 3)[5], Num(40, 1))

(* The closes 10, 20, 30, 40, 50 with period 3, cleaned. *)
C5_Witness ==
    /\ pc = "cleaned"
    /\ sma_period = 3
    /\ Len(Out) = 5
    /\ Closes(Out) = <<Num(10, 1), Num(20, 1), Num(30, 1), Num(40, 1), Num(50, 1)>>

(* C6: tail(180) returns the whole series when it has at most 180 rows and  *)
(* otherwise its last 180 rows, in order and with their values.             *)
C6_Tail ==
    pc = "tailed" =>
        LET L == Len(Out)
            R == df_recent.rows
        IN IF L <= Window THEN R = Out
           ELSE /\ Len(R) = Window
                /\ \A i \in 1..Window : R[i] = Out[L - Window + i]

(* A series longer than the window, cut. *)
C6_Witness ==
    /\ pc = "tailed"
    /\ Len(Out) > Window
    /\ Len(df_recent.rows) = Window

(* C7: when the fetch succeeds and no row survives normalization, the run   *)
(* ends in a failure report, raises no fault, and neither the renderer nor  *)
(* the summary metrics are evaluated.                                       *)
C7_EmptySeriesReported ==
    (pc \notin {"start", "fetched"} /\ ~df_raw.isNone /\ empty(df_processed)) =>
        /\ pc # "fault"
        /\ \A i \in 1..Len(ran) : ran[i] \notin {"plot", "summary"}
        /\ pc = "done" => report = "failed"

(* The place of a stage in the order fetch, normalize, SMA, window, render. *)
Stage(name) ==
    CASE name = "fetch" -> 1
      [] name = "normalize" -> 2
      [] name = "sma" -> 3
      [] name = "window" -> 4
      [] OTHER -> 5

(* C8: the stages run in the order fetch, normalize, SMA, windowing,        *)
(* render, one after the other; after a failed fetch no later stage runs,   *)
(* nothing is rendered and the run ends in the failure report.              *)
C8_StagesInOrder ==
    /\ \A i \in 1..Len(ran) :
          /\ i = 1 => ran[i] = "fetch"
          /\ i > 1 => \/ Stage(ran[i]) = Stage(ran[i - 1]) + 1
                      \/ (Stage(ran[i]) = 5 /\ Stage(ran[i - 1]) = 5
                          /\ ran[i] # ran[i - 1])
    /\ pc = "start" <=> ran = <<>>
    /\ (Fetched /\ df_raw.isNone) =>
          /\ ran = <<"fetch">>
          /\ ~metrics.set
          /\ pc \in {"fetched", "done"}
          /\ pc = "fetched" => (ENABLED ReportFailure /\ ~ENABLED Normalize)
          /\ pc = "done" => report = "failed"

(* A rate-limited or otherwise failed fetch, reported. *)
C8_Witness ==
    /\ pc = "done"
    /\ df_raw.isNone
    /\ report = "failed"
    /\ ran = <<"fetch">>

(* C9 as stated: every output row has positive prices and a non-negative    *)
(* integer volume.                                                          *)
C9_ValidPriceRecords ==
    Cleaned => \A j \in 1..Len(Out) :
        /\ \A c \in {"Open", "High", "Low", "Close"} :
              ~Out[j].cells[c].nan /\ Out[j].cells[c].n > 0
        /\ ~Out[j].cells["Volume"].nan
        /\ Out[j].cells["Volume"].n >= 0
        /\ Out[j].cells["Volume"].n % Out[j].cells["Volume"].d = 0

(* A raw row whose close is not positive, or whose volume is negative or    *)
(* not whole.                                                               *)
OutOfRange(raw) ==
    /\ AllNumeric(raw)
    /\ \/ to_numeric(raw.cells["4. close"]).n <= 0
       \/ to_numeric(raw.cells["5. volume"]).n < 0
       \/ to_numeric(raw.cells["5. volume"]).d # 1

(* C9 amended: every output row has a number in each of the five fields,    *)
(* and no range or integrality check is made: a raw row whose fields all    *)
(* parse is in the output with its values also when its close is zero or    *)
(* negative or its volume negative or fractional.                           *)
C9_NumericOnly ==
    Cleaned =>
        /\ \A j \in 1..Len(Out) : \A c \in cols_to_numeric : ~Out[j].cells[c].nan
        /\ \A i \in 1..Len(RawRowsIn) :
              OutOfRange(RawRowsIn[i])
                 => \E j \in 1..Len(Out) : SameRow(Out[j], RawRowsIn[i])

(* A negative close in the output. *)
C9_Witness ==
    /\ pc = "cleaned"
    /\ \E j \in 1..Len(Out) : Out[j].cells["Close"].n < 0

(* C10: every row of the display slice carries the SMA of its place in the  *)
(* full normalized series, and the reported latest SMA is undefined exactly *)
(* when the full series has fewer rows than the period.                     *)
C10_SmaBeforeWindow ==
    /\ pc \in {"windowed", "plotted", "summarised", "done"} =>
          LET L == Len(Out)
              R == df_recent.rows
              W == Len(R)
          IN /\ W = IF L <= Window THEN L ELSE Window
             /\ \A i \in 1..W :
                   /\ R[i] = Out[L - W + i]
                   /\ SmaOK(Out, L - W + i, sma_period, R[i].cells[SmaCol(sma_period)])
    /\ metrics.set => (metrics.sma.nan <=> Len(Out) < sma_period)

(* A run over more rows than the window: the slice starts with a defined    *)
(* SMA and the latest SMA is reported.                                      *)
C10_Witness ==
    /\ pc = "done"
    /\ metrics.set
    /\ Len(Out) > Window
    /\ ~df_recent.rows[1].cells[SmaCol(sma_period)].nan
    /\ ~metrics.sma.nan

====
